---- MODULE Spec2Model ----
(***************************************************************************)
(* Model of detector/detection_results.go: the DetectionResults store      *)
(* (Failures and ignores maps), its accumulation operations, and Report.   *)
(*                                                                         *)
(* Go strings whose length matters (failure messages) are modelled as      *)
(* sequences of bytes, since len(s) and s[:n] in Go count bytes.  File     *)
(* paths, commit ids and detector names are opaque strings.  Text that is  *)
(* built by concatenation (the returned report, standard output) is a      *)
(* sequence of segments in concatenation order.                            *)
(***************************************************************************)
EXTENDS Integers, Sequences, FiniteSets, TLC

VARIABLES Failures, ignores, calls, lastOp, got, reported, result, stdout,
          data, filePaths, pc, local, atomic, crashed

vars == <<Failures, ignores, calls, lastOp, got, reported, result, stdout,
          data, filePaths, pc, local, atomic, crashed>>

storeVars == <<Failures, ignores>>
reportVars == <<reported, result, stdout, data, filePaths>>
concVars == <<pc, local, atomic, crashed>>

----------------------------------------------------------------------------
(* Bounds and input sets *)

MaxCalls == 3
MaxCellCalls == 2
MaxConcCalls == 2

LineLimit == 150

NL == 10

\* n copies of the one-byte character b
Rep(b, n) == [i \in 1..n |-> b]
\* n copies of a two-byte UTF-8 character (lead byte 195, continuation byte 169)
RepTwo(n) == [i \in 1..(2 * n) |-> IF i % 2 = 1 THEN 195 ELSE 169]

Paths == {"p1", "p2"}
CommitLists == {<< >>, <<"c1", "c2">>}
DetectorNames == {"d1", "d2"}
Messages == {<< >>, Rep(97, LineLimit + 1)}
CellMessages == {<< >>, <<97>>, Rep(97, LineLimit), Rep(97, LineLimit + 1),
                 Rep(98, 2 * LineLimit + 2), RepTwo(76), RepTwo(LineLimit + 1),
                 <<97, NL, 98>>}
Procs == {1, 2}

None == [none |-> TRUE]

----------------------------------------------------------------------------
(* Pure helpers *)

MapPut(F, k, v) == [x \in (DOMAIN F) \cup {k} |-> IF x = k THEN v ELSE F[x]]

MapGet(F, k) == IF k \in DOMAIN F THEN F[k] ELSE << >>

NewFaulureData(message, commits) == [Message |-> message, Commits |-> commits]

FailAssign_Overwrite(F, filePath, errors, ok, failureData) ==
    MapPut(F, filePath, <<failureData>>)

FailAssign_Prepend(F, filePath, errors, ok, failureData) ==
    IF ~ok THEN MapPut(F, filePath, <<failureData>>)
    ELSE MapPut(F, filePath, <<failureData>> \o errors)

\* lines 39-43: the write half of Fail
FailAssign(F, filePath, errors, ok, failureData) ==
    IF ~ok THEN MapPut(F, filePath, <<failureData>>)
    ELSE MapPut(F, filePath, Append(errors, failureData))

\* lines 36-44: Fail as one uninterrupted call
FailStore(F, filePath, message, commits) ==
    LET ok == filePath \in DOMAIN F
        errors == MapGet(F, filePath)
        failureData == NewFaulureData(<<message>>, commits)
    IN  FailAssign(F, filePath, errors, ok, failureData)

IgnoreAssign_Overwrite(G, filePath, old, ok, detector) ==
    MapPut(G, filePath, <<detector>>)

\* lines 50-54: the write half of Ignore
IgnoreAssign(G, filePath, old, ok, detector) ==
    IF ~ok THEN MapPut(G, filePath, <<detector>>)
    ELSE MapPut(G, filePath, Append(old, detector))

\* lines 48-55: Ignore as one uninterrupted call
IgnoreStore(G, filePath, detector) ==
    IgnoreAssign(G, filePath, MapGet(G, filePath), filePath \in DOMAIN G, detector)

HasFailures_OrIgnores == Cardinality(DOMAIN Failures) > 0 \/ Cardinality(DOMAIN ignores) > 0

HasFailures == Cardinality(DOMAIN Failures) > 0

HasIgnores == Cardinality(DOMAIN ignores) > 0

Successful == ~HasFailures

GetFailures(fileName) == MapGet(Failures, fileName)

----------------------------------------------------------------------------
(* Report helpers *)

Cell_BreakAtLimitInclusive(failureMessage) ==
    IF Len(failureMessage) >= LineLimit
    THEN SubSeq(failureMessage, 1, LineLimit) \o <<NL>>
         \o SubSeq(failureMessage, LineLimit + 1, Len(failureMessage))
    ELSE failureMessage

\* lines 129-131
Cell(failureMessage) ==
    IF Len(failureMessage) > LineLimit
    THEN SubSeq(failureMessage, 1, LineLimit) \o <<NL>>
         \o SubSeq(failureMessage, LineLimit + 1, Len(failureMessage))
    ELSE failureMessage

RECURSIVE JoinNL(_)
JoinNL(commits) ==
    IF Len(commits) = 0 THEN << >>
    ELSE IF Len(commits) = 1 THEN <<commits[1]>>
    ELSE <<commits[1], "\n">> \o JoinNL(Tail(commits))

RECURSIVE MessageRows(_, _, _, _)
MessageRows(filePath, failureData, toBeScanned, j) ==
    IF j > Len(failureData.Message) THEN << >>
    ELSE LET failureMessage == Cell(failureData.Message[j])
             row == IF toBeScanned
                    THEN <<filePath, failureMessage, JoinNL(failureData.Commits)>>
                    ELSE <<filePath, failureMessage>>
         IN  <<row>> \o MessageRows(filePath, failureData, toBeScanned, j + 1)

RECURSIVE FailureRows(_, _, _, _)
FailureRows(filePath, failures, toBeScanned, i) ==
    IF i > Len(failures) THEN << >>
    ELSE MessageRows(filePath, failures[i], toBeScanned, 1)
         \o FailureRows(filePath, failures, toBeScanned, i + 1)

ReportFileFailures_FirstOnly(F, filePath, toBeScanned) ==
    LET failures == MapGet(F, filePath)
    IN  IF Len(failures) > 0 THEN MessageRows(filePath, failures[1], toBeScanned, 1)
        ELSE << >>

\* lines 123-141
ReportFileFailures(F, filePath, toBeScanned) ==
    LET failures == MapGet(F, filePath)
    IN  IF Len(failures) > 0 THEN FailureRows(filePath, failures, toBeScanned, 1)
        ELSE << >>

RECURSIVE UniqueLoop(_, _, _, _)
UniqueLoop(stringSlice, i, keys, list) ==
    IF i > Len(stringSlice) THEN list
    ELSE LET entry == stringSlice[i]
         IN  IF entry \notin keys
             THEN UniqueLoop(stringSlice, i + 1, keys \cup {entry}, Append(list, entry))
             ELSE UniqueLoop(stringSlice, i + 1, keys, list)

unique_Identity(stringSlice) == stringSlice

\* lines 155-165
unique(stringSlice) == UniqueLoop(stringSlice, 1, {}, << >>)

CalculateCollectiveHash(paths) == [hashOf |-> paths]

FileIgnoreConfig(fileName, checksum, allowedPatterns) ==
    [fileName |-> fileName, checksum |-> checksum, allowedPatterns |-> allowedPatterns]

YamlMarshal(fileIgnoreConfigs) == [yaml |-> fileIgnoreConfigs]

\* lines 109-120
suggestTalismanRC(paths) ==
    YamlMarshal([i \in 1..Len(paths) |->
        FileIgnoreConfig(paths[i], CalculateCollectiveHash(<<paths[i]>>), << >>)])

Banner == "Talisman Report:"
Note == "If you are absolutely sure that you want to ignore the above files from talisman detectors, consider pasting the following format in .talismanrc file in the project root"
TwoNewlines == "\n\n"
TableHeader == <<"File", "Errors">>

\* table.SetHeader / SetRowLine / AppendBulk / Render
RenderTable(rows) == [header |-> TableHeader, rowLine |-> TRUE, rows |-> rows]

ReportGuard_AnyPath(F, G) == Cardinality(DOMAIN F) + Cardinality(DOMAIN G) > 0

\* line 98
ReportGuard(F, G) == Cardinality(DOMAIN F) > 0

\* lines 99-101: what Report prints
ReportStdout(rows) == <<Banner, RenderTable(rows)>>

ReportText_WithBanner(block) == <<Banner, Note, block, TwoNewlines>>

\* lines 102-104: what Report returns
ReportText(block) == <<Note, block, TwoNewlines>>

\* every order in which a range loop over a map with key set S may visit the keys
IterationOrders(S) ==
    {s \in [1..Cardinality(S) -> S] : {s[i] : i \in 1..Cardinality(S)} = S}

RECURSIVE RowsInOrder(_, _, _)
RowsInOrder(F, order, i) ==
    IF i > Len(order) THEN << >>
    ELSE ReportFileFailures(F, order[i], FALSE) \o RowsInOrder(F, order, i + 1)

----------------------------------------------------------------------------
(* Sequential store *)

Init ==
    /\ Failures = << >>
    /\ ignores = << >>
    /\ calls = << >>
    /\ lastOp = "NewDetectionResults"
    /\ got = None
    /\ reported = FALSE
    /\ result = << >>
    /\ stdout = << >>
    /\ data = << >>
    /\ filePaths = << >>
    /\ pc = [d \in Procs |-> "idle"]
    /\ local = [d \in Procs |-> None]
    /\ atomic = TRUE
    /\ crashed = FALSE

Fail(filePath, message, commits) ==
    /\ ~reported
    /\ Failures' = FailStore(Failures, filePath, message, commits)
    /\ calls' = Append(calls, [op |-> "Fail", path |-> filePath, message |-> message,
                               commits |-> commits, proc |-> 0])
    /\ lastOp' = "Fail"
    /\ UNCHANGED <<ignores, got, reportVars, concVars>>

Ignore(filePath, detector) ==
    /\ ~reported
    /\ ignores' = IgnoreStore(ignores, filePath, detector)
    /\ calls' = Append(calls, [op |-> "Ignore", path |-> filePath, detector |-> detector,
                               proc |-> 0])
    /\ lastOp' = "Ignore"
    /\ UNCHANGED <<Failures, got, reportVars, concVars>>

GetFailuresCall_CreatesKey(fileName) ==
    /\ got' = [path |-> fileName, failures |-> GetFailures(fileName)]
    /\ Failures' = IF fileName \in DOMAIN Failures THEN Failures
                   ELSE MapPut(Failures, fileName, << >>)
    /\ lastOp' = "GetFailures"
    /\ UNCHANGED <<ignores, calls, reportVars, concVars>>

GetFailuresCall(fileName) ==
    /\ got' = [path |-> fileName, failures |-> GetFailures(fileName)]
    /\ lastOp' = "GetFailures"
    /\ UNCHANGED <<storeVars, calls, reportVars, concVars>>

Report ==
    /\ ~reported
    /\ \E failureOrder \in IterationOrders(DOMAIN Failures) :
      \E ignoreOrder \in IterationOrders(DOMAIN ignores) :
        LET rows == RowsInOrder(Failures, failureOrder, 1)
            filePathsForIgnoresAndFailures == unique(failureOrder \o ignoreOrder)
        IN  /\ data' = rows
            /\ filePaths' = filePathsForIgnoresAndFailures
            /\ IF ReportGuard(Failures, ignores)
               THEN /\ stdout' = stdout \o ReportStdout(rows)
                    /\ result' = ReportText(suggestTalismanRC(filePathsForIgnoresAndFailures))
               ELSE /\ stdout' = stdout
                    /\ result' = << >>
            /\ reported' = TRUE
            /\ lastOp' = "Report"
            /\ UNCHANGED <<storeVars, calls, got, concVars>>

FailStep ==
    /\ Len(calls) < MaxCalls
    /\ \E p \in Paths, m \in Messages, c \in CommitLists : Fail(p, m, c)

IgnoreStep ==
    /\ Len(calls) < MaxCalls
    /\ \E p \in Paths, d \in DetectorNames : Ignore(p, d)

GetFailuresStep == \E p \in Paths : GetFailuresCall(p)

Next == FailStep \/ IgnoreStep \/ GetFailuresStep \/ Report

Spec == Init /\ [][Next]_vars

----------------------------------------------------------------------------
(* Long messages: Fail calls with messages around the line limit, then Report *)

FailCellStep ==
    /\ Len(calls) < MaxCellCalls
    /\ \E p \in Paths, m \in CellMessages : Fail(p, m, << >>)

NextCell == FailCellStep \/ Report

SpecCell == Init /\ [][NextCell]_vars

----------------------------------------------------------------------------
(* Detectors calling into one store concurrently.  When atomic is FALSE a   *)
(* call is its map read (line 37 / 49) followed later by its map write      *)
(* (lines 39-43 / 50-54), and other detectors may run in between; the Go    *)
(* runtime may also abort the process on detecting the unsynchronized map   *)
(* access.  When atomic is TRUE the caller serializes the calls.            *)

InitConc ==
    /\ Failures = << >>
    /\ ignores = << >>
    /\ calls = << >>
    /\ lastOp = "NewDetectionResults"
    /\ got = None
    /\ reported = FALSE
    /\ result = << >>
    /\ stdout = << >>
    /\ data = << >>
    /\ filePaths = << >>
    /\ pc = [d \in Procs |-> "idle"]
    /\ local = [d \in Procs |-> None]
    /\ atomic \in BOOLEAN
    /\ crashed = FALSE

ReturnedBy(d) == Len(SelectSeq(calls, LAMBDA c : c.proc = d))
StartedBy(d) == ReturnedBy(d) + (IF pc[d] = "idle" THEN 0 ELSE 1)

\* the message detector d passes on its n-th call: two bytes naming d and n
ConcMessage(d, n) == <<96 + d, 48 + n>>
ConcDetector(d) == IF d = 1 THEN "d1" ELSE "d2"

CanStart(d) == ~crashed /\ pc[d] = "idle" /\ StartedBy(d) < MaxConcCalls

AtomicFail(d, filePath) ==
    /\ atomic /\ CanStart(d)
    /\ LET message == ConcMessage(d, StartedBy(d) + 1)
       IN  /\ Failures' = FailStore(Failures, filePath, message, << >>)
           /\ calls' = Append(calls, [op |-> "Fail", path |-> filePath, message |-> message,
                                      commits |-> << >>, proc |-> d])
    /\ lastOp' = "Fail"
    /\ UNCHANGED <<ignores, got, reportVars, concVars>>

AtomicIgnore(d, filePath) ==
    /\ atomic /\ CanStart(d)
    /\ ignores' = IgnoreStore(ignores, filePath, ConcDetector(d))
    /\ calls' = Append(calls, [op |-> "Ignore", path |-> filePath,
                               detector |-> ConcDetector(d), proc |-> d])
    /\ lastOp' = "Ignore"
    /\ UNCHANGED <<Failures, got, reportVars, concVars>>

\* lines 37-38
FailRead(d, filePath) ==
    /\ ~atomic /\ CanStart(d)
    /\ local' = [local EXCEPT ![d] =
                    [path |-> filePath,
                     errors |-> MapGet(Failures, filePath),
                     ok |-> filePath \in DOMAIN Failures,
                     failureData |-> NewFaulureData(<<ConcMessage(d, StartedBy(d) + 1)>>, << >>)]]
    /\ pc' = [pc EXCEPT ![d] = "FailWrite"]
    /\ lastOp' = "FailRead"
    /\ UNCHANGED <<storeVars, calls, got, reportVars, atomic, crashed>>

\* lines 39-44
FailWrite(d) ==
    /\ ~crashed /\ pc[d] = "FailWrite"
    /\ Failures' = FailAssign(Failures, local[d].path, local[d].errors, local[d].ok,
                              local[d].failureData)
    /\ calls' = Append(calls, [op |-> "Fail", path |-> local[d].path,
                               message |-> local[d].failureData.Message[1],
                               commits |-> local[d].failureData.Commits, proc |-> d])
    /\ pc' = [pc EXCEPT ![d] = "idle"]
    /\ local' = [local EXCEPT ![d] = None]
    /\ lastOp' = "Fail"
    /\ UNCHANGED <<ignores, got, reportVars, atomic, crashed>>

\* line 49
IgnoreRead(d, filePath) ==
    /\ ~atomic /\ CanStart(d)
    /\ local' = [local EXCEPT ![d] =
                    [path |-> filePath,
                     ignores |-> MapGet(ignores, filePath),
                     ok |-> filePath \in DOMAIN ignores,
                     detector |-> ConcDetector(d)]]
    /\ pc' = [pc EXCEPT ![d] = "IgnoreWrite"]
    /\ lastOp' = "IgnoreRead"
    /\ UNCHANGED <<storeVars, calls, got, reportVars, atomic, crashed>>

\* lines 50-55
IgnoreWrite(d) ==
    /\ ~crashed /\ pc[d] = "IgnoreWrite"
    /\ ignores' = IgnoreAssign(ignores, local[d].path, local[d].ignores, local[d].ok,
                               local[d].detector)
    /\ calls' = Append(calls, [op |-> "Ignore", path |-> local[d].path,
                               detector |-> local[d].detector, proc |-> d])
    /\ pc' = [pc EXCEPT ![d] = "idle"]
    /\ local' = [local EXCEPT ![d] = None]
    /\ lastOp' = "Ignore"
    /\ UNCHANGED <<Failures, got, reportVars, atomic, crashed>>

\* the runtime's "concurrent map writes" abort: possible whenever two calls overlap
MapFault(d) ==
    /\ ~crashed /\ pc[d] # "idle"
    /\ \E e \in Procs : e # d /\ pc[e] # "idle"
    /\ crashed' = TRUE
    /\ lastOp' = "fatal"
    /\ UNCHANGED <<storeVars, calls, got, reportVars, pc, local, atomic>>

AtomicFailStep == \E d \in Procs, p \in Paths : AtomicFail(d, p)
AtomicIgnoreStep == \E d \in Procs, p \in Paths : AtomicIgnore(d, p)
FailReadStep == \E d \in Procs, p \in Paths : FailRead(d, p)
FailWriteStep == \E d \in Procs : FailWrite(d)
IgnoreReadStep == \E d \in Procs, p \in Paths : IgnoreRead(d, p)
IgnoreWriteStep == \E d \in Procs : IgnoreWrite(d)
MapFaultStep == \E d \in Procs : MapFault(d)

NextConc ==
    \/ AtomicFailStep \/ AtomicIgnoreStep
    \/ FailReadStep \/ FailWriteStep
    \/ IgnoreReadStep \/ IgnoreWriteStep
    \/ MapFaultStep

SpecConc == InitConc /\ [][NextConc]_vars

----------------------------------------------------------------------------
(* The call log, read back *)

IsFail(c) == c.op = "Fail"
IsIgnore(c) == c.op = "Ignore"

FailCallsOn(p) == SelectSeq(calls, LAMBDA c : IsFail(c) /\ c.path = p)
IgnoreCallsOn(p) == SelectSeq(calls, LAMBDA c : IsIgnore(c) /\ c.path = p)
NumFailCalls == Len(SelectSeq(calls, IsFail))
NumIgnoreCalls == Len(SelectSeq(calls, IsIgnore))

RowsOf(p) == SelectSeq(data, LAMBDA r : r[1] = p)

AllPaths == (DOMAIN Failures) \cup (DOMAIN ignores)

----------------------------------------------------------------------------
(* Properties of the sequential store *)

\* C1: GetFailures(p) holds exactly one FailureData per Fail(p, m, c) call, in
\* call order, each with message sequence <<m>> and commits c; nothing is
\* overwritten, removed or reordered, and empty or duplicate messages stay.
C1_FailuresAreTheFailCalls ==
    \A p \in Paths :
        /\ Len(GetFailures(p)) = Len(FailCallsOn(p))
        /\ \A i \in 1..Len(FailCallsOn(p)) :
              /\ GetFailures(p)[i].Message = <<FailCallsOn(p)[i].message>>
              /\ GetFailures(p)[i].Commits = FailCallsOn(p)[i].commits

C1_Witness ==
    \E p \in Paths, q \in Paths :
        /\ p # q
        /\ Len(calls) = 3
        /\ IsFail(calls[1]) /\ calls[1].path = p /\ calls[1].message = << >>
        /\ IsFail(calls[2]) /\ calls[2].path = q
        /\ IsFail(calls[3]) /\ calls[3].path = p /\ calls[3].message = << >>
        /\ calls[1].commits # calls[3].commits
        /\ Len(GetFailures(p)) = 2
        /\ GetFailures(p)[1].Commits = calls[1].commits

\* C2: HasFailures() is true exactly when some Fail call has occurred, and
\* Successful() exactly when none has; Ignore calls do not count.
C2_HasFailuresIffFailCalled ==
    /\ HasFailures <=> (NumFailCalls > 0)
    /\ Successful <=> (NumFailCalls = 0)

C2_Witness ==
    /\ NumIgnoreCalls >= 2
    /\ NumFailCalls = 0
    /\ HasIgnores
    /\ Successful

\* C3: with no Fail call, Report() returns the empty string and writes
\* nothing to standard output, however many ignores are recorded.
C3_SilentWithoutFailures ==
    (reported /\ NumFailCalls = 0) => (result = << >> /\ stdout = << >>)

C3_Witness ==
    /\ reported
    /\ NumFailCalls = 0
    /\ NumIgnoreCalls >= 2
    /\ result = << >>

\* C4: the paths collected by Report() are the union of the keys of Failures
\* and of ignores, each once; the suggestion block holds one record per such
\* path, with the checksum of the one-element list of that path.
C4_SuggestionPathsAreTheUnion ==
    reported =>
        /\ {filePaths[i] : i \in 1..Len(filePaths)} = AllPaths
        /\ Len(filePaths) = Cardinality(AllPaths)
        /\ HasFailures =>
              LET records == result[2].yaml
              IN  /\ Len(records) = Cardinality(AllPaths)
                  /\ \A p \in AllPaths :
                        \E i \in 1..Len(records) :
                            /\ records[i].fileName = p
                            /\ records[i].checksum = CalculateCollectiveHash(<<p>>)
                            /\ records[i].allowedPatterns = << >>
                            /\ \A j \in 1..Len(records) : records[j].fileName = p => j = i

C4_Witness ==
    /\ reported
    /\ \E p \in Paths :
          /\ p \in DOMAIN Failures
          /\ p \in DOMAIN ignores
          /\ Len(Failures[p]) >= 2
          /\ Len(result[2].yaml) = 1

\* C5 as stated: the returned text is banner, note, block, and only the table
\* goes to standard output.
C5_BannerIsReturned ==
    (reported /\ HasFailures) =>
        /\ result = <<Banner, Note, suggestTalismanRC(filePaths)>>
        /\ stdout = <<RenderTable(data)>>

\* C5 (amended): with a failure recorded, Report() returns the note, the
\* suggestion block and two line breaks, in that order; the banner and then
\* the table go to standard output and are not part of the returned text.
C5_NoteThenBlockReturned ==
    (reported /\ HasFailures) =>
        /\ Len(result) = 3
        /\ result[1] = Note
        /\ result[2] = suggestTalismanRC(filePaths)
        /\ result[3] = TwoNewlines
        /\ stdout = <<Banner, RenderTable(data)>>

C5_Witness ==
    /\ reported
    /\ HasFailures
    /\ HasIgnores
    /\ Len(result) = 3
    /\ Len(stdout) = 2

\* C7: the default table has one two-column row per Fail call; the rows of a
\* path are (path, cell of message) in the order of the Fail calls on it, and
\* Ignore calls add no rows.
C7_OneRowPerFailCall ==
    reported =>
        /\ Len(data) = NumFailCalls
        /\ \A k \in 1..Len(data) : Len(data[k]) = 2
        /\ \A p \in Paths :
              /\ Len(RowsOf(p)) = Len(FailCallsOn(p))
              /\ \A i \in 1..Len(FailCallsOn(p)) :
                    RowsOf(p)[i] = <<p, Cell(FailCallsOn(p)[i].message)>>

C7_Witness ==
    /\ reported
    /\ NumIgnoreCalls = 1
    /\ \E p \in Paths :
          /\ Len(FailCallsOn(p)) = 2
          /\ FailCallsOn(p)[1].message # FailCallsOn(p)[2].message
          /\ Len(RowsOf(p)) = 2
          /\ RowsOf(p)[1][2] # RowsOf(p)[2][2]

\* C8: GetFailures(p) changes neither mapping, so HasFailures() and
\* Successful() answer the same before and after; for a path that never
\* failed it returns the empty sequence.
C8_GetFailuresOnlyReads ==
    [][lastOp' = "GetFailures" =>
          /\ Failures' = Failures
          /\ ignores' = ignores
          /\ HasFailures' = HasFailures
          /\ Successful' = Successful
          /\ (Len(FailCallsOn(got'.path)) = 0 => got'.failures = << >>)]_vars

C8_Witness ==
    /\ lastOp = "GetFailures"
    /\ HasFailures
    /\ Len(FailCallsOn(got.path)) = 0
    /\ got.path \notin DOMAIN Failures
    /\ got.failures = << >>

\* C9: Ignore(p, d) appends d to ignores[p] and changes nothing else; Fail
\* changes nothing in ignores; a path can hold failures and ignores at once.
C9_IgnoreAndFailAreIndependent ==
    [][calls' # calls =>
          LET c == calls'[Len(calls')]
          IN  /\ IsIgnore(c) =>
                    /\ DOMAIN ignores' = (DOMAIN ignores) \cup {c.path}
                    /\ ignores'[c.path] = MapGet(ignores, c.path) \o <<c.detector>>
                    /\ \A q \in DOMAIN ignores : q # c.path => ignores'[q] = ignores[q]
                    /\ Failures' = Failures
              /\ IsFail(c) => ignores' = ignores]_vars

C9_Witness ==
    \E p \in Paths :
        /\ p \in DOMAIN Failures
        /\ p \in DOMAIN ignores
        /\ Len(ignores[p]) = 2
        /\ ignores[p][1] = ignores[p][2]

----------------------------------------------------------------------------
(* Message cells *)

IsContinuationByte(b) == b >= 128 /\ b < 192
NumChars(m) == Cardinality({i \in 1..Len(m) : ~IsContinuationByte(m[i])})
\* number of bytes taken by the first n characters of m
CharPrefixLen(m, n) ==
    IF NumChars(m) <= n THEN Len(m)
    ELSE (CHOOSE i \in 1..Len(m) :
              /\ ~IsContinuationByte(m[i])
              /\ Cardinality({j \in 1..i : ~IsContinuationByte(m[j])}) = n + 1) - 1

CellOfCall(p, i) == RowsOf(p)[i][2]

\* C6 as stated, lengths counted in characters: the cell is m when m has at
\* most 150 characters, else its first 150 characters, a line break, the rest.
C6_SplitAfter150Characters ==
    reported =>
        \A p \in Paths : \A i \in 1..Len(FailCallsOn(p)) :
            LET m == FailCallsOn(p)[i].message
                k == CharPrefixLen(m, LineLimit)
            IN  IF NumChars(m) <= LineLimit
                THEN CellOfCall(p, i) = m
                ELSE CellOfCall(p, i) = SubSeq(m, 1, k) \o <<NL>> \o SubSeq(m, k + 1, Len(m))

\* C6 (amended), lengths counted in bytes: the cell is m when m has at most
\* 150 bytes, else its first 150 bytes, exactly one line break, and the
\* remaining bytes; removing that line break gives back m.
C6_SplitAfter150Bytes ==
    reported =>
        \A p \in Paths : \A i \in 1..Len(FailCallsOn(p)) :
            LET m == FailCallsOn(p)[i].message
                cell == CellOfCall(p, i)
            IN  IF Len(m) <= LineLimit
                THEN cell = m
                ELSE /\ Len(cell) = Len(m) + 1
                     /\ SubSeq(cell, 1, LineLimit) = SubSeq(m, 1, LineLimit)
                     /\ cell[LineLimit + 1] = NL
                     /\ SubSeq(cell, LineLimit + 2, Len(cell)) = SubSeq(m, LineLimit + 1, Len(m))
                     /\ SubSeq(cell, 1, LineLimit) \o SubSeq(cell, LineLimit + 2, Len(cell)) = m

C6_Witness ==
    /\ reported
    /\ \E p \in Paths, q \in Paths :
          /\ Len(FailCallsOn(p)) >= 1
          /\ Len(FailCallsOn(p)[1].message) = LineLimit + 1
          /\ Len(CellOfCall(p, 1)) = LineLimit + 2
          /\ CellOfCall(p, 1)[LineLimit + 1] = NL
          /\ Len(FailCallsOn(q)) >= 1
          /\ Len(FailCallsOn(q)[Len(FailCallsOn(q))].message) = LineLimit
          /\ Len(CellOfCall(q, Len(FailCallsOn(q)))) = LineLimit

----------------------------------------------------------------------------
(* Concurrent detectors *)

AllIdle == \A d \in Procs : pc[d] = "idle"

\* C10: when every Fail/Ignore call executes atomically, no interleaving of
\* the detectors' calls loses a record: each path holds exactly the records
\* of the calls made on it, in the order the calls were made, and the run
\* never aborts.  (Without atomicity a lost update is reachable: C10_Witness.)
C10_AtomicCallsLoseNothing ==
    atomic =>
        /\ ~crashed
        /\ \A p \in Paths :
              /\ Len(GetFailures(p)) = Len(FailCallsOn(p))
              /\ \A i \in 1..Len(FailCallsOn(p)) :
                    GetFailures(p)[i] = NewFaulureData(<<FailCallsOn(p)[i].message>>,
                                                       FailCallsOn(p)[i].commits)
              /\ Len(MapGet(ignores, p)) = Len(IgnoreCallsOn(p))

C10_Witness ==
    /\ ~atomic
    /\ ~crashed
    /\ AllIdle
    /\ Len(calls) = 2
    /\ IsFail(calls[1]) /\ IsFail(calls[2])
    /\ calls[1].path = calls[2].path
    /\ calls[1].proc # calls[2].proc
    /\ Len(GetFailures(calls[1].path)) = 1
    /\ GetFailures(calls[1].path)[1].Message = <<calls[2].message>>

====
